---------------------------- MODULE Spec2Model ----------------------------
(***************************************************************************)
(* A model of wasm3-rs' Runtime (src/src/runtime.rs): the owner of the     *)
(* engine's execution context, of the Environment reference and of the     *)
(* closure store.  The engine (m3_NewRuntime, m3_LoadModule, m3_GetMemory, *)
(* m3_FreeRuntime) and the collaborators Environment, ParsedModule,        *)
(* Module and eq_cstr_str live outside runtime.rs; they are modelled from  *)
(* their documented contract.                                              *)
(***************************************************************************)
EXTENDS Integers, Sequences, FiniteSets, TLC

(***************************************************************************)
(* Bounds of the model.                                                    *)
(***************************************************************************)
MaxModules == 3
MaxClosures == 5
MaxMemSize == 2

(***************************************************************************)
(* Values.                                                                 *)
(***************************************************************************)
\* the null pointer (ptr::null_mut, NonNull::new(..) = None)
Null == 0
\* the address of the execution context the engine hands out
Handle == 1
\* the non-null base address of the engine's linear memory
MemBase == 1
\* NonNull::dangling(): a non-null, well-aligned address that is never read
Dangling == 2

Envs == {"envA", "envB"}
NoEnv == "none"
ModIds == 1..MaxModules
\* heap addresses the allocator may give to a boxed closure
Addrs == 1..(MaxClosures + 1)
StackSizes == {0, 1, 2}

\* module names as byte strings; the engine keeps them NUL-terminated
Names == {<<1>>, <<1, 2>>}
LookupNames == {<<>>, <<1>>, <<1, 2>>, <<2>>}
\* what a module holds under a function name: nothing, a function of
\* signature sigA or sigB, or a function whose resolution fails for another
\* reason (e.g. it does not compile)
Sigs == {"sigA", "sigB"}
Exports == {"absent", "sigA", "sigB", "broken"}
FnNames == {"f", "g"}
NoExports == [n \in FnNames |-> "absent"]
\* the export tables of the modules parsed: anything under f, at most a
\* function of signature sigA under g
ExportTables == {t \in [FnNames -> Exports] : t["g"] \in {"absent", "sigA"}}

VARIABLES
    rtState,        \* "none" | "live" | "ctx_freed" | "env_dropped" | "dropped"
    raw,            \* Runtime.raw: the execution-context handle
    environment,    \* Runtime.environment
    closure_store,  \* Runtime.closure_store: [buf, cap, elems]
    envRefs,        \* strong count of every Environment (Rc)
    heap,           \* closure boxes: address -> "free" | "alive" | "freed"
    closFrees,      \* address -> number of times the box was freed
    pushed,         \* history: the addresses pushed, in push order
    modules,        \* engine: M3Runtime.modules, the head of the module list
    next,           \* engine: M3Module.next of every module
    mods,           \* every parsed module: wrapper state, env, name, export, frees
    loadOrder,      \* history: the modules loaded successfully, in load order
    freeRuntimeCalls, \* number of m3_FreeRuntime calls on the handle
    useAfterFree,   \* history: an engine call used the handle after its release
    numStackSlots,  \* engine: M3Runtime.numStackSlots
    callerEnv,      \* whether the caller still holds its handle of an Environment
    iter,           \* the caller's modules() sequence: [st, cursor, yielded, snapshot, resumed]
    ret             \* the last operation and its result

vars == <<rtState, raw, environment, closure_store, envRefs, heap, closFrees,
          pushed, modules, next, mods, loadOrder, freeRuntimeCalls, useAfterFree,
          numStackSlots, callerEnv, iter, ret>>

rtVars == <<rtState, raw, environment, freeRuntimeCalls, useAfterFree>>
closureVars == <<closure_store, heap, closFrees, pushed>>
listVars == <<modules, next, loadOrder>>
auxVars == <<numStackSlots, callerEnv, iter>>

\* no modules() sequence exists
NoIter == [st |-> "none", cursor |-> Null, yielded |-> <<>>, snapshot |-> <<>>,
           resumed |-> FALSE]

EmptyVec == [buf |-> Null, cap |-> 0, elems |-> <<>>]
Unparsed == [st |-> "unparsed", env |-> NoEnv, name |-> <<>>,
             export |-> NoExports, frees |-> 0]

\* the outcome of an operation: its name, its result, the value it carries and
\* the engine entry points it called
Ret(op, res, val, called) == [op |-> op, res |-> res, val |-> val, called |-> called]

Init ==
    /\ rtState = "none"
    /\ raw = Null
    /\ environment = NoEnv
    /\ closure_store = EmptyVec
    /\ envRefs = [e \in Envs |-> 1]
    /\ heap = [a \in Addrs |-> "free"]
    /\ closFrees = [a \in Addrs |-> 0]
    /\ pushed = <<>>
    /\ modules = Null
    /\ next = [m \in ModIds |-> Null]
    /\ mods = [m \in ModIds |-> Unparsed]
    /\ loadOrder = <<>>
    /\ freeRuntimeCalls = 0
    /\ useAfterFree = FALSE
    /\ numStackSlots = 0
    /\ callerEnv = [e \in Envs |-> TRUE]
    /\ iter = NoIter
    /\ ret = Ret("init", "Ok", Null, {})

(***************************************************************************)
(* Collaborators outside runtime.rs.                                       *)
(***************************************************************************)
\* Environment::clone: one more strong reference to the same instance
CloneEnv(refs, e) == [refs EXCEPT ![e] = @ + 1]
\* Environment's drop: one strong reference less
ReleaseEnv(refs, e) == [refs EXCEPT ![e] = @ - 1]
\* Environment's equality is identity of the shared instance
EnvEq(a, b) == a = b

\* ParsedModule's drop: the wrapper frees the engine resource it owns and
\* gives up its Environment reference
DropWrapper(ms, m) == [ms EXCEPT ![m].st = "dropped", ![m].frees = @ + 1]

\* the modules of the engine's list, from node m on, following next
RECURSIVE ListFrom(_, _, _)
ListFrom(nxt, m, fuel) ==
    IF m = Null \/ fuel = 0 THEN <<>>
    ELSE <<m>> \o ListFrom(nxt, nxt[m], fuel - 1)

ModuleList == ListFrom(next, modules, MaxModules + 1)

InList(m) == \E i \in 1..Len(ModuleList) : ModuleList[i] = m

\* m3_LoadModule on success: the module becomes the last node of the list
LinkedHead(head, nxt, m) == IF head = Null THEN m ELSE head

LinkedNext(head, nxt, m) ==
    IF head = Null THEN [nxt EXCEPT ![m] = Null]
    ELSE LET l == ListFrom(nxt, head, MaxModules + 1)
         IN  [nxt EXCEPT ![l[Len(l)]] = m, ![m] = Null]

\* m3_FreeRuntime: the engine frees every module still linked in the list
FreeLinked(ms, l) ==
    [m \in ModIds |->
        IF \E i \in 1..Len(l) : l[i] = m
        THEN [ms[m] EXCEPT !.frees = @ + 1]
        ELSE ms[m]]

\* the engine is entered with the execution-context handle
EnterEngine == useAfterFree' = (useAfterFree \/ freeRuntimeCalls > 0)

(***************************************************************************)
(* Runtime::new                                                            *)
(***************************************************************************)
\* mutant: the handle is taken as it comes, null or not
NewResult_Unchecked(h) == "Ok"

\* NonNull::new(..).ok_or_else(Error::malloc_error)
NewResult(h) == IF h = Null THEN "MallocError" ELSE "Ok"

\* h is what m3_NewRuntime returns: the handle, or null on allocation failure
New(e, stack_size, h) ==
    /\ rtState = "none"
    /\ envRefs[e] > 0
    /\ callerEnv[e]
    /\ numStackSlots' = (IF NewResult(h) = "Ok" THEN stack_size ELSE numStackSlots)
    /\ UNCHANGED <<callerEnv, iter>>
    /\ IF NewResult(h) = "Ok"
       THEN /\ rtState' = "live"
            /\ raw' = h
            /\ environment' = e
            /\ envRefs' = CloneEnv(envRefs, e)
            /\ closure_store' = EmptyVec
       ELSE UNCHANGED <<rtState, raw, environment, envRefs, closure_store>>
    /\ ret' = Ret("new", NewResult(h), [env |-> e, stack_size |-> stack_size,
                                        handle |-> h], {"m3_NewRuntime"})
    /\ UNCHANGED <<heap, closFrees, pushed, listVars, mods, freeRuntimeCalls,
                   useAfterFree>>

(***************************************************************************)
(* impl Drop for Runtime, and the drop of its fields in declaration order  *)
(***************************************************************************)
\* mutant: the drop leaves the execution context to leak
Drop_NoRelease ==
    /\ UNCHANGED auxVars
    /\ rtState = "live"
    /\ iter.st = "none"
    /\ rtState' = "ctx_freed"
    /\ ret' = Ret("drop", "Ok", Null, {})
    /\ UNCHANGED <<raw, environment, closure_store, envRefs, heap, closFrees,
                   pushed, listVars, mods, freeRuntimeCalls, useAfterFree>>

\* mutant: the drop frees the closure store and leaves the context unreleased
Drop_StoreFirst ==
    /\ UNCHANGED auxVars
    /\ rtState = "live"
    /\ iter.st = "none"
    /\ rtState' = "ctx_freed"
    /\ heap' = [a \in Addrs |->
                  IF \E i \in 1..Len(closure_store.elems) : closure_store.elems[i] = a
                  THEN "freed" ELSE heap[a]]
    /\ closure_store' = [buf |-> Null, cap |-> 0, elems |-> <<>>]
    /\ ret' = Ret("drop", "Ok", Null, {})
    /\ UNCHANGED <<raw, environment, envRefs, closFrees, pushed, listVars, mods,
                   freeRuntimeCalls, useAfterFree>>

Drop ==
    /\ UNCHANGED auxVars
    /\ rtState = "live"
    /\ iter.st = "none"
    /\ rtState' = "ctx_freed"
    /\ freeRuntimeCalls' = freeRuntimeCalls + 1
    /\ EnterEngine
    /\ mods' = FreeLinked(mods, ModuleList)
    /\ modules' = Null
    /\ ret' = Ret("drop", "Ok", Null, {"m3_FreeRuntime"})
    /\ UNCHANGED <<raw, environment, closure_store, envRefs, heap, closFrees,
                   pushed, next, loadOrder>>

DropEnvironment ==
    /\ UNCHANGED auxVars
    /\ rtState = "ctx_freed"
    /\ rtState' = "env_dropped"
    /\ envRefs' = ReleaseEnv(envRefs, environment)
    /\ environment' = NoEnv
    /\ ret' = Ret("drop_environment", "Ok", Null, {})
    /\ UNCHANGED <<raw, closureVars, listVars, mods, freeRuntimeCalls,
                   useAfterFree>>

\* Vec's drop: every Pin<Box<..>> it holds is freed
FreeBoxes(h, elems) ==
    [a \in Addrs |-> IF \E i \in 1..Len(elems) : elems[i] = a THEN "freed" ELSE h[a]]

CountFrees(c, elems) ==
    [a \in Addrs |-> c[a] + Cardinality({i \in 1..Len(elems) : elems[i] = a})]

DropClosureStore ==
    /\ UNCHANGED auxVars
    /\ rtState = "env_dropped"
    /\ rtState' = "dropped"
    /\ heap' = FreeBoxes(heap, closure_store.elems)
    /\ closFrees' = CountFrees(closFrees, closure_store.elems)
    /\ closure_store' = EmptyVec
    /\ ret' = Ret("drop_closure_store", "Ok", Null, {})
    /\ UNCHANGED <<raw, environment, envRefs, pushed, listVars, mods,
                   freeRuntimeCalls, useAfterFree>>

(***************************************************************************)
(* Module::parse (the caller's), and the caller dropping a parsed module   *)
(***************************************************************************)
ParseModule(m, e, name, export) ==
    /\ UNCHANGED auxVars
    /\ mods[m].st = "unparsed"
    /\ \A k \in ModIds : k < m => mods[k].st # "unparsed"
    /\ envRefs[e] > 0
    /\ callerEnv[e]
    /\ mods' = [mods EXCEPT ![m] = [st |-> "owned", env |-> e, name |-> name,
                                    export |-> export, frees |-> 0]]
    /\ envRefs' = CloneEnv(envRefs, e)
    /\ ret' = Ret("parse", "Ok", m, {})
    /\ UNCHANGED <<rtVars, closureVars, listVars>>

DropParsedModule(m) ==
    /\ UNCHANGED auxVars
    /\ mods[m].st = "owned"
    /\ mods' = DropWrapper(mods, m)
    /\ envRefs' = ReleaseEnv(envRefs, mods[m].env)
    /\ ret' = Ret("drop_parsed_module", "Ok", m, {})
    /\ UNCHANGED <<rtVars, closureVars, listVars>>

(***************************************************************************)
(* Runtime::load_module                                                    *)
(***************************************************************************)
\* mutant: without mem::forget the wrapper is dropped when load_module returns
ForgetWrapper_Dropped(ms, m) == DropWrapper(ms, m)

\* mem::forget(module): the wrapper's drop never runs
ForgetWrapper(ms, m) == [ms EXCEPT ![m].st = "forgotten"]

\* mutant: the environment check is left out
EnvMismatch_Never(m) == FALSE

\* the environment check of load_module
EnvMismatch(m) == ~EnvEq(environment, mods[m].env)

\* r is the engine's answer to m3_LoadModule, should it be called
load_module(m, r) ==
    /\ UNCHANGED auxVars
    /\ rtState = "live"
    /\ mods[m].st = "owned"
    /\ IF EnvMismatch(m)
       THEN \* Err(Error::ModuleLoadEnvMismatch); module is dropped on return
            /\ ret' = Ret("load_module", "ModuleLoadEnvMismatch", m, {})
            /\ mods' = DropWrapper(mods, m)
            /\ envRefs' = ReleaseEnv(envRefs, mods[m].env)
            /\ UNCHANGED <<listVars, useAfterFree>>
       ELSE IF r # "Ok"
       THEN \* the ? operator returns the engine's error; module is dropped
            /\ ret' = Ret("load_module", r, m, {"m3_LoadModule"})
            /\ mods' = DropWrapper(mods, m)
            /\ envRefs' = ReleaseEnv(envRefs, mods[m].env)
            /\ EnterEngine
            /\ UNCHANGED listVars
       ELSE /\ modules' = LinkedHead(modules, next, m)
            /\ next' = LinkedNext(modules, next, m)
            /\ loadOrder' = Append(loadOrder, m)
            /\ mods' = ForgetWrapper(mods, m)
            /\ ret' = Ret("load_module", "Ok", m, {"m3_LoadModule"})
            /\ EnterEngine
            /\ UNCHANGED envRefs
    /\ UNCHANGED <<rtState, raw, environment, freeRuntimeCalls, closureVars>>

LoadResults == {"Ok", "ModuleLoadFailure"}

(***************************************************************************)
(* Runtime::memory                                                         *)
(***************************************************************************)
\* what m3_GetMemory may report: a base pointer and a size in bytes; a
\* runtime without any module has no memory
MemoryReports ==
    IF modules = Null THEN {<<Null, 0>>}
    ELSE {Null, MemBase} \X (0..MaxMemSize)

\* the data pointer given to slice::from_raw_parts
ViewPtr(p, size) == IF size = 0 \/ p = Null THEN Dangling ELSE p

\* the length given to slice::from_raw_parts: size as usize
ViewLen(p, size) == size

memory(p, size) ==
    /\ UNCHANGED auxVars
    /\ rtState = "live"
    /\ <<p, size>> \in MemoryReports
    /\ EnterEngine
    /\ ret' = Ret("memory", "Ok",
                  [ptr |-> ViewPtr(p, size), len |-> ViewLen(p, size),
                   engine_ptr |-> p, engine_size |-> size], {"m3_GetMemory"})
    /\ UNCHANGED <<rtState, raw, environment, freeRuntimeCalls, closureVars,
                   envRefs, listVars, mods>>

(***************************************************************************)
(* The lifecycle and ownership machine.                                    *)
(***************************************************************************)
Next ==
    \/ \E e \in Envs, s \in StackSizes, h \in {Null, Handle} : New(e, s, h)
    \/ \E m \in ModIds, e \in Envs : ParseModule(m, e, <<1>>, NoExports)
    \/ \E m \in ModIds, r \in LoadResults : load_module(m, r)
    \/ \E m \in ModIds : DropParsedModule(m)
    \/ \E p \in {Null, MemBase}, size \in 0..MaxMemSize : memory(p, size)
    \/ Drop
    \/ DropEnvironment
    \/ DropClosureStore

Spec == Init /\ [][Next]_vars

(***************************************************************************)
(* Properties of the lifecycle and ownership machine.                      *)
(***************************************************************************)
LoadFailedWith(res) == ret.op = "load_module" /\ ret.res = res

\* C1: a load_module that fails with EnvironmentMismatch does not call the
\* engine's load entry point, leaves the module list as it was and does not
\* consume the module: the caller still owns it, unfreed, and can load it
\* into a Runtime of the right Environment.
C1_MismatchKeepsModule ==
    LoadFailedWith("ModuleLoadEnvMismatch") =>
        /\ ret.called = {}
        /\ ~InList(ret.val)
        /\ mods[ret.val].st = "owned"
        /\ mods[ret.val].frees = 0

\* C6: memory() gives a zero-length view whenever the engine reports a zero
\* size or a null base pointer, never a view over a null pointer, and
\* otherwise a view as long as the size the engine reports.
C6_MemoryViewLength ==
    ret.op = "memory" =>
        /\ ret.val.ptr # Null
        /\ (ret.val.engine_size = 0 \/ ret.val.engine_ptr = Null) => ret.val.len = 0
        /\ (ret.val.engine_size # 0 /\ ret.val.engine_ptr # Null) =>
               ret.val.len = ret.val.engine_size

\* C7: the engine's teardown entry point is called on the handle of a
\* constructed Runtime exactly once, at its drop, and no engine call uses
\* the handle afterwards.
C7_ReleasedExactlyOnce ==
    /\ rtState \in {"none", "live"} => freeRuntimeCalls = 0
    /\ rtState \in {"ctx_freed", "env_dropped", "dropped"} => freeRuntimeCalls = 1
    /\ ~useAfterFree

\* C7 witness: a Runtime that never had a module or a closure was dropped
C7_Witness ==
    /\ rtState = "dropped"
    /\ freeRuntimeCalls = 1
    /\ loadOrder = <<>>
    /\ pushed = <<>>

\* C9 as stated: Runtime::new with a valid Environment and a positive stack
\* size always succeeds.
C9_NewAlwaysSucceeds ==
    ret.op = "new" => (ret.val.stack_size > 0 => ret.res = "Ok")

\* the state a call of Runtime::new leaves behind
C9_NewState ==
    ret.op = "new" =>
        /\ ret.res = (IF ret.val.handle = Null THEN "MallocError" ELSE "Ok")
        /\ ret.res = "MallocError" =>
               /\ rtState = "none"
               /\ raw = Null
               /\ environment = NoEnv
        /\ ret.res = "Ok" =>
               /\ rtState = "live"
               /\ raw = ret.val.handle
               /\ raw # Null
               /\ environment = ret.val.env
               /\ closure_store = EmptyVec
               /\ ENABLED Drop

\* the strong count a call of Runtime::new leaves behind
C9_NewStep ==
    ret'.op = "new" =>
        envRefs' = (IF ret'.res = "Ok"
                    THEN [envRefs EXCEPT ![ret'.val.env] = @ + 1]
                    ELSE envRefs)

\* C9 amended: Runtime::new succeeds exactly when the engine returns a
\* non-null handle and fails with MemoryAllocation exactly when it returns
\* null.  On failure no Runtime exists and no Environment reference is
\* retained; on success the Runtime holds the non-null handle, exactly one
\* more strong reference to the given Environment and an empty closure
\* store, and it can be dropped.
C9_NewSucceedsIffHandle == []C9_NewState /\ [][C9_NewStep]_vars

\* C9 witness: a Runtime built with a positive stack size
C9_Witness ==
    /\ ret.op = "new"
    /\ ret.res = "Ok"
    /\ ret.val.stack_size > 0
    /\ envRefs[ret.val.env] = 2

\* C10: the engine resource of a parsed module has exactly one owner, the
\* wrapper or the Runtime's list, until it is freed, and is freed at most
\* once; a loaded module is owned by the list and freed by the Runtime's
\* teardown, a module the engine rejected is not linked and is freed by the
\* wrapper; once the Runtime is torn down every module given to load_module
\* has been freed exactly once.
WrapperOwns(m) == mods[m].st = "owned"

C10_SingleOwner ==
    /\ \A m \in ModIds :
        /\ mods[m].frees <= 1
        /\ mods[m].st # "unparsed" =>
              IF mods[m].frees = 0
              THEN WrapperOwns(m) # InList(m)
              ELSE ~WrapperOwns(m) /\ ~InList(m)
        /\ mods[m].st = "forgotten" =>
              mods[m].frees = (IF rtState = "live" THEN 0 ELSE 1)
        /\ mods[m].st = "dropped" => mods[m].frees = 1
    /\ (ret.op = "load_module" /\ ret.res = "Ok") =>
        /\ mods[ret.val].st = "forgotten"
        /\ InList(ret.val)
        /\ mods[ret.val].frees = 0
    /\ LoadFailedWith("ModuleLoadFailure") =>
        /\ mods[ret.val].st = "dropped"
        /\ ~InList(ret.val)
        /\ mods[ret.val].frees = 1
    /\ rtState \in {"ctx_freed", "env_dropped", "dropped"} =>
        \A i \in 1..Len(loadOrder) : mods[loadOrder[i]].frees = 1

\* C10 witness: a torn-down Runtime that had loaded two modules and had a
\* third one rejected by the engine
C10_Witness ==
    /\ rtState = "dropped"
    /\ Len(loadOrder) = 2
    /\ \E m \in ModIds :
        /\ mods[m].st = "dropped"
        /\ mods[m].env = mods[loadOrder[1]].env
    /\ \A m \in ModIds : mods[m].frees = 1

(***************************************************************************)
(* Runtime::push_closure and the closure store.                            *)
(***************************************************************************)
\* Vec's growth when it is full: a new, larger buffer at another address;
\* the elements (the boxes' pointers) are copied over
VecGrow(v) ==
    IF Len(v.elems) < v.cap THEN v
    ELSE [v EXCEPT !.cap = IF v.cap = 0 THEN 4 ELSE 2 * v.cap, !.buf = v.buf + 1]

\* mutant: the store keeps only the closure pushed last
VecPush_Replace(v, a) == [VecGrow(v) EXCEPT !.elems = <<a>>]

\* (*self.closure_store.get()).push(closure)
VecPush(v, a) == [VecGrow(v) EXCEPT !.elems = Append(v.elems, a)]

\* a is the address of the closure's box, allocated by Box::pin at the caller
push_closure(a) ==
    /\ UNCHANGED auxVars
    /\ rtState = "live"
    /\ Len(pushed) < MaxClosures
    /\ heap[a] = "free"
    /\ heap' = [heap EXCEPT ![a] = "alive"]
    /\ closure_store' = VecPush(closure_store, a)
    /\ pushed' = Append(pushed, a)
    /\ ret' = Ret("push_closure", "Ok", a, {})
    /\ UNCHANGED <<rtVars, envRefs, closFrees, listVars, mods>>

(***************************************************************************)
(* The closure-store machine.                                              *)
(***************************************************************************)
NextClosures ==
    \/ \E e \in Envs, s \in StackSizes, h \in {Null, Handle} : New(e, s, h)
    \/ \E a \in Addrs : push_closure(a)
    \/ \E p \in {Null, MemBase}, size \in 0..MaxMemSize : memory(p, size)
    \/ Drop
    \/ DropEnvironment
    \/ DropClosureStore

SpecClosures == Init /\ [][NextClosures]_vars

PushedSet == {pushed[i] : i \in 1..Len(pushed)}

\* the store and the boxes in every state
C8_StoreAppendOnly ==
    /\ Cardinality(PushedSet) = Len(pushed)
    /\ rtState \in {"live", "ctx_freed", "env_dropped"} =>
        /\ closure_store.elems = pushed
        /\ Len(closure_store.elems) <= closure_store.cap
        /\ \A a \in Addrs : closFrees[a] = 0
        /\ \A a \in Addrs : heap[a] = (IF a \in PushedSet THEN "alive" ELSE "free")
    /\ rtState = "dropped" =>
        /\ \A a \in Addrs : closFrees[a] = (IF a \in PushedSet THEN 1 ELSE 0)
        /\ \A a \in Addrs : heap[a] = (IF a \in PushedSet THEN "freed" ELSE "free")

\* no step of a live Runtime removes, moves or frees a stored closure
C8_PushStep ==
    rtState = "live" /\ rtState' = "live" =>
        /\ \A i \in 1..Len(closure_store.elems) :
              /\ i <= Len(closure_store'.elems)
              /\ closure_store'.elems[i] = closure_store.elems[i]
        /\ closFrees' = closFrees

\* C8: while the Runtime lives the store holds exactly the closures pushed,
\* in push order, each alive at the address it was pushed with, whatever the
\* growth of the backing vector; nothing but the Runtime's teardown frees a
\* closure, and the teardown frees each exactly once.
C8_ClosuresKept == []C8_StoreAppendOnly /\ [][C8_PushStep]_vars

\* C8 witness: five closures in a store whose vector has grown with four
\* closures in it
C8_Witness ==
    /\ rtState = "live"
    /\ Len(closure_store.elems) = 5
    /\ closure_store.cap = 8
    /\ closure_store.buf = 2
    /\ \A i \in 1..5 : heap[closure_store.elems[i]] = "alive"

(***************************************************************************)
(* Runtime::find_module and Runtime::modules                               *)
(***************************************************************************)
\* the engine keeps a module's name as a NUL-terminated byte string
CName(m) == mods[m].name \o <<0>>

\* utils::eq_cstr_str: compares byte by byte up to the terminator, without
\* computing the length of the C string first
RECURSIVE EqCstrStrFrom(_, _, _)
EqCstrStrFrom(c, str, i) ==
    IF i > Len(str) THEN c[i] = 0
    ELSE IF c[i] = 0 THEN FALSE
    ELSE IF c[i] = str[i] THEN EqCstrStrFrom(c, str, i + 1)
    ELSE FALSE

eq_cstr_str(c, str) == EqCstrStrFrom(c, str, 1)

\* mutant: the walk does not stop at the first match and returns the last
RECURSIVE FindModuleFrom_Last(_, _, _)
FindModuleFrom_Last(m, name, fuel) ==
    IF m = Null \/ fuel = 0 THEN Null
    ELSE LET later == FindModuleFrom_Last(next[m], name, fuel - 1)
         IN  IF later # Null THEN later
             ELSE IF eq_cstr_str(CName(m), name) THEN m ELSE Null

\* the while-let loop of find_module, from node m on
RECURSIVE FindModuleFrom(_, _, _)
FindModuleFrom(m, name, fuel) ==
    IF m = Null \/ fuel = 0 THEN Null
    ELSE IF eq_cstr_str(CName(m), name) THEN m
    ELSE FindModuleFrom(next[m], name, fuel - 1)

find_module(name) ==
    /\ UNCHANGED auxVars
    /\ rtState = "live"
    /\ LET found == FindModuleFrom(modules, name, MaxModules + 1)
       IN  ret' = Ret("find_module",
                      IF found = Null THEN "ModuleNotFound" ELSE "Ok",
                      [name |-> name, module |-> found], {})
    /\ UNCHANGED <<rtVars, closureVars, envRefs, listVars, mods>>

\* mutant: the closure steps first and yields the node stepped to
IterStep_SkipFirst(cursor) ==
    LET nxt == IF cursor = Null THEN Null ELSE next[cursor]
    IN  [item |-> nxt, cursor |-> nxt]

\* one call of the from_fn closure of modules(): yields the node under the
\* cursor (None at the end) and moves the cursor to its next
IterStep(cursor) ==
    LET nxt == IF cursor = Null THEN Null ELSE next[cursor]
    IN  [item |-> cursor, cursor |-> nxt]

\* the items of the sequence from a cursor on, until it returns None
RECURSIVE Drain(_, _)
Drain(cursor, fuel) ==
    LET step == IterStep(cursor)
    IN  IF step.item = Null \/ fuel = 0 THEN <<>>
        ELSE <<step.item>> \o Drain(step.cursor, fuel - 1)

\* a fresh modules() sequence, run to its end
modules_collect ==
    /\ UNCHANGED auxVars
    /\ rtState = "live"
    /\ ret' = Ret("modules", "Ok", Drain(modules, MaxModules + 1), {})
    /\ UNCHANGED <<rtVars, closureVars, envRefs, listVars, mods>>

(***************************************************************************)
(* The module-lookup machine: one Environment, modules of several names.   *)
(***************************************************************************)
NextNames ==
    \/ \E h \in {Null, Handle} : New("envA", 1, h)
    \/ \E m \in ModIds, name \in Names : ParseModule(m, "envA", name, NoExports)
    \/ \E m \in ModIds, r \in LoadResults : load_module(m, r)
    \/ \E name \in LookupNames : find_module(name)
    \/ modules_collect

SpecNames == Init /\ [][NextNames]_vars

\* C2: a fresh modules() sequence yields exactly the modules loaded
\* successfully, each once, in load order, and then ends.
C2_ModulesInLoadOrder ==
    ret.op = "modules" => ret.val = loadOrder

\* C2 witness: three modules, loaded in another order than they were parsed
C2_Witness ==
    /\ ret.op = "modules"
    /\ Len(ret.val) = 3
    /\ ret.val = <<2, 3, 1>>
    /\ \E m \in ModIds : mods[m].st = "forgotten"

\* the positions in the modules() sequence of the modules of a name
Matches(name) ==
    LET l == Drain(modules, MaxModules + 1)
    IN  {i \in 1..Len(l) : mods[l[i]].name = name}

Least(S) == CHOOSE i \in S : \A j \in S : i <= j

\* C3: find_module returns the first module, in list order, of the given
\* name, and ModuleNotFound exactly when no loaded module has that name.
C3_FindModuleFirstMatch ==
    ret.op = "find_module" =>
        IF Matches(ret.val.name) = {}
        THEN ret.res = "ModuleNotFound"
        ELSE /\ ret.res = "Ok"
             /\ ret.val.module =
                    Drain(modules, MaxModules + 1)[Least(Matches(ret.val.name))]

\* C3 witness: two loaded modules share the name looked up, after a module
\* of another name
C3_Witness ==
    /\ ret.op = "find_module"
    /\ ret.res = "Ok"
    /\ Cardinality(Matches(ret.val.name)) = 2
    /\ Least(Matches(ret.val.name)) = 2

(***************************************************************************)
(* Runtime::parse_and_load_module                                          *)
(***************************************************************************)
\* Module::parse(&self.environment, bytes).and_then(|module| self.load_module(module));
\* parsed tells whether the bytes parse, r is the engine's answer to the load
parse_and_load_module(m, name, export, parsed, r) ==
    /\ UNCHANGED auxVars
    /\ rtState = "live"
    /\ mods[m].st = "unparsed"
    /\ \A k \in ModIds : k < m => mods[k].st # "unparsed"
    /\ LET owned == [mods EXCEPT ![m] = [st |-> "owned", env |-> environment,
                                         name |-> name, export |-> export,
                                         frees |-> 0]]
       IN  IF ~parsed
           THEN /\ ret' = Ret("parse_and_load_module", "ParseError", m, {})
                /\ UNCHANGED <<mods, envRefs, listVars, useAfterFree>>
           ELSE IF ~EnvEq(environment, owned[m].env)
           THEN /\ ret' = Ret("parse_and_load_module", "ModuleLoadEnvMismatch", m, {})
                /\ mods' = DropWrapper(owned, m)
                /\ UNCHANGED <<envRefs, listVars, useAfterFree>>
           ELSE IF r # "Ok"
           THEN /\ ret' = Ret("parse_and_load_module", r, m, {"m3_LoadModule"})
                /\ mods' = DropWrapper(owned, m)
                /\ EnterEngine
                /\ UNCHANGED <<envRefs, listVars>>
           ELSE /\ modules' = LinkedHead(modules, next, m)
                /\ next' = LinkedNext(modules, next, m)
                /\ loadOrder' = Append(loadOrder, m)
                /\ mods' = ForgetWrapper(owned, m)
                /\ envRefs' = CloneEnv(envRefs, environment)
                /\ ret' = Ret("parse_and_load_module", "Ok", m, {"m3_LoadModule"})
                /\ EnterEngine
    /\ UNCHANGED <<rtState, raw, environment, freeRuntimeCalls, closureVars>>

(***************************************************************************)
(* Runtime::find_function                                                  *)
(***************************************************************************)
\* Module::find_function::<ARGS, RET>(name), sig standing for <ARGS, RET>
ModuleFindFunction(m, name, sig) ==
    LET e == mods[m].export[name]
    IN  IF e = "absent" THEN "FunctionNotFound"
        ELSE IF e = "broken" THEN "CompileError"
        ELSE IF e = sig THEN "Ok"
        ELSE "InvalidFunctionSignature"

\* mutant: every error but not-found ends the scan
Definitive_AnyError(r) == r # "FunctionNotFound"

\* mutant: only a success ends the scan
Definitive_OkOnly(r) == r = "Ok"

\* the match of the find_map closure: Some(res) for these, None otherwise
Definitive(r) == r \in {"Ok", "InvalidFunctionSignature"}

\* mutant: the wrong error is given when the scan finds nothing
ScanDefault_ModuleNotFound == "ModuleNotFound"

\* unwrap_or(Err(Error::FunctionNotFound))
ScanDefault == "FunctionNotFound"

\* self.modules().find_map(..) from a cursor on: the result, the module it
\* comes from and the modules examined
RECURSIVE Scan(_, _, _, _)
Scan(cursor, name, sig, fuel) ==
    LET step == IterStep(cursor)
    IN  IF step.item = Null \/ fuel = 0
        THEN [res |-> ScanDefault, module |-> Null, examined |-> <<>>]
        ELSE LET r == ModuleFindFunction(step.item, name, sig)
             IN  IF Definitive(r)
                 THEN [res |-> r, module |-> step.item, examined |-> <<step.item>>]
                 ELSE LET rest == Scan(step.cursor, name, sig, fuel - 1)
                      IN  [rest EXCEPT !.examined = <<step.item>> \o @]

find_function(name, sig) ==
    /\ UNCHANGED auxVars
    /\ rtState = "live"
    /\ LET found == Scan(modules, name, sig, MaxModules + 1)
       IN  ret' = Ret("find_function", found.res,
                      [name |-> name, sig |-> sig, module |-> found.module,
                       examined |-> found.examined], {})
    /\ UNCHANGED <<rtVars, closureVars, envRefs, listVars, mods>>

(***************************************************************************)
(* The function-lookup machine: modules of several export tables.          *)
(***************************************************************************)
NextFunctions ==
    \/ \E h \in {Null, Handle} : New("envA", 1, h)
    \/ \E m \in ModIds, t \in ExportTables, parsed \in BOOLEAN, r \in LoadResults :
          parse_and_load_module(m, <<1>>, t, parsed, r)
    \/ \E name \in FnNames, sig \in Sigs : find_function(name, sig)

SpecFunctions == Init /\ [][NextFunctions]_vars

\* what the list's i-th module holds under the name looked up
Held(i) == mods[ModuleList[i]].export[ret.val.name]

\* the positions of the modules that hold a function of that name with a
\* signature, right or wrong
Signed == {i \in 1..Len(ModuleList) : Held(i) \in Sigs}

\* C4: the first module, in list order, that holds the name with a signature
\* decides find_function: InvalidFunctionSignature if the signature is not
\* the one asked for, success if it is; no later module is examined, even
\* one that holds the name with the right signature.
C4_ShortCircuit ==
    (ret.op = "find_function" /\ Signed # {}) =>
        LET i == Least(Signed)
        IN  /\ ret.res = (IF Held(i) = ret.val.sig THEN "Ok"
                          ELSE "InvalidFunctionSignature")
            /\ ret.val.module = ModuleList[i]
            /\ ret.val.examined = SubSeq(ModuleList, 1, i)

\* C4 witness: the first module holds the name with the wrong signature and
\* a later one, never examined, with the right one
C4_Witness ==
    /\ ret.op = "find_function"
    /\ ret.res = "InvalidFunctionSignature"
    /\ Len(ModuleList) = 3
    /\ ret.val.examined = <<ModuleList[1]>>
    /\ Held(3) = ret.val.sig

\* C5: find_function for a name that no loaded module holds returns
\* FunctionNotFound, whatever the number of loaded modules.
C5_AbsentNotFound ==
    (ret.op = "find_function"
        /\ \A i \in 1..Len(ModuleList) : Held(i) = "absent") =>
        /\ ret.res = "FunctionNotFound"
        /\ ret.val.module = Null
        /\ ret.val.examined = ModuleList

\* C5 witness: three loaded modules, none holding the name, while they hold
\* another name
C5_Witness ==
    /\ ret.op = "find_function"
    /\ ret.res = "FunctionNotFound"
    /\ Len(ModuleList) = 3
    /\ \A i \in 1..3 : Held(i) = "absent"
    /\ \E i \in 1..3 : mods[ModuleList[i]].export["g"] = "sigA"

(***************************************************************************)
(* Runtime::modules, step by step, with loads between the steps.           *)
(***************************************************************************)
\* self.modules(): the cursor starts at the head of the list
modules_new ==
    /\ rtState = "live"
    /\ iter' = [st |-> "live", cursor |-> modules, yielded |-> <<>>,
                snapshot |-> ModuleList, resumed |-> FALSE]
    /\ ret' = Ret("modules_new", "Ok", modules, {})
    /\ UNCHANGED <<rtVars, closureVars, envRefs, listVars, mods, numStackSlots,
                   callerEnv>>

\* mutant: at the end of the list the cursor goes back to the head
IterAdvance_Restart(cursor) ==
    IF cursor = Null THEN [item |-> Null, cursor |-> modules]
    ELSE [item |-> cursor, cursor |-> next[cursor]]

\* the step of the live sequence: one call of the from_fn closure
IterAdvance(cursor) == IterStep(cursor)

\* mutant: the step unlinks the node it yields from the Runtime's list
modules_next_Unlink ==
    /\ rtState = "live"
    /\ iter.st # "none"
    /\ LET step == IterAdvance(iter.cursor)
       IN  /\ iter' = [iter EXCEPT
                  !.cursor = step.cursor,
                  !.st = IF step.item = Null THEN "ended" ELSE @,
                  !.yielded = IF step.item = Null THEN @ ELSE Append(@, step.item)]
           /\ modules' = step.cursor
           /\ ret' = Ret("modules_next", "Ok", step.item, {})
    /\ UNCHANGED <<rtVars, closureVars, envRefs, next, loadOrder, mods,
                   numStackSlots, callerEnv>>

\* Iterator::next on the sequence
modules_next ==
    /\ rtState = "live"
    /\ iter.st # "none"
    /\ LET step == IterAdvance(iter.cursor)
       IN  /\ iter' = [iter EXCEPT
                  !.cursor = step.cursor,
                  !.st = IF step.item = Null THEN "ended" ELSE @,
                  !.yielded = IF step.item = Null THEN @ ELSE Append(@, step.item),
                  !.resumed = @ \/ (iter.st = "ended" /\ step.item # Null)]
           /\ ret' = Ret("modules_next", "Ok", step.item, {})
    /\ UNCHANGED <<rtVars, closureVars, envRefs, listVars, mods, numStackSlots,
                   callerEnv>>

\* the caller drops the sequence
modules_drop ==
    /\ iter.st # "none"
    /\ iter' = NoIter
    /\ ret' = Ret("modules_drop", "Ok", Null, {})
    /\ UNCHANGED <<rtVars, closureVars, envRefs, listVars, mods, numStackSlots,
                   callerEnv>>

(***************************************************************************)
(* The iteration machine: loads interleaved with the steps of a sequence.  *)
(***************************************************************************)
NextIter ==
    \/ \E h \in {Null, Handle} : New("envA", 1, h)
    \/ \E m \in ModIds, name \in Names : ParseModule(m, "envA", name, NoExports)
    \/ \E m \in ModIds, r \in LoadResults : load_module(m, r)
    \/ modules_new
    \/ modules_next
    \/ modules_drop

SpecIter == Init /\ [][NextIter]_vars

IsPrefix(a, b) == Len(a) <= Len(b) /\ SubSeq(b, 1, Len(a)) = a

\* the sequence in every state
C11_IterState ==
    iter.st # "none" =>
        /\ IsPrefix(iter.yielded, ModuleList)
        /\ IsPrefix(iter.snapshot, ModuleList)
        /\ Cardinality({iter.yielded[i] : i \in 1..Len(iter.yielded)})
               = Len(iter.yielded)
        /\ iter.st = "ended" =>
               /\ IsPrefix(iter.snapshot, iter.yielded)
               /\ iter.cursor = Null
        /\ ~iter.resumed
        /\ Len(iter.yielded) < Len(iter.snapshot) =>
               iter.cursor = iter.snapshot[Len(iter.yielded) + 1]

\* a step of an ended sequence yields nothing
C11_IterStep ==
    (iter.st = "ended" /\ ret'.op = "modules_next") =>
        /\ ret'.val = Null
        /\ iter'.st = "ended"
        /\ iter'.yielded = iter.yielded

\* C11: with load_module calls between its steps a modules() sequence only
\* yields modules of the Runtime's list, none twice, yields every module
\* that was in the list at its creation, in list order, takes no more
\* yielding steps than the list has modules, and never yields again once it
\* has returned the end.
C11_IterSafeUnderLoads == []C11_IterState /\ [][C11_IterStep]_vars

\* C11 witness: a sequence created over one module has ended after yielding
\* it and a module loaded during the iteration, and a third module was
\* loaded after its end
C11_Witness ==
    /\ iter.st = "ended"
    /\ Len(iter.snapshot) = 1
    /\ Len(iter.yielded) = 2
    /\ Len(ModuleList) = 3
    /\ ret.op = "modules_next"
    /\ ret.val = Null

(***************************************************************************)
(* The environment machine: the lifecycle machine with both ways to load.  *)
(***************************************************************************)
NextEnv ==
    \/ Next
    \/ \E m \in ModIds, parsed \in BOOLEAN, r \in LoadResults :
          parse_and_load_module(m, <<1>>, NoExports, parsed, r)

SpecEnv == Init /\ [][NextEnv]_vars

\* C12: every module of the Runtime's list references the Runtime's own
\* Environment instance; load_module links a module only when the identity
\* check passes, and parse_and_load_module never fails with
\* EnvironmentMismatch.
C12_SameEnvironment ==
    /\ \A i \in 1..Len(ModuleList) : mods[ModuleList[i]].env = environment
    /\ ret.op = "parse_and_load_module" => ret.res # "ModuleLoadEnvMismatch"
    /\ (ret.op = "load_module" /\ ret.res = "Ok") => mods[ret.val].env = environment
    /\ (ret.op = "load_module" /\ mods[ret.val].env # environment) =>
           ret.res = "ModuleLoadEnvMismatch" /\ ~InList(ret.val)

\* C12 witness: a Runtime of envB holds a module loaded by load_module and
\* one loaded by parse_and_load_module, after a module of envA was refused
C12_Witness ==
    /\ rtState = "live"
    /\ environment = "envB"
    /\ Len(ModuleList) = 2
    /\ ret.op = "parse_and_load_module"
    /\ ret.res = "Ok"
    /\ \E m \in ModIds : mods[m].st = "dropped" /\ mods[m].env = "envA"

(***************************************************************************)
(* Runtime::stack and Runtime::stack_mut                                   *)
(***************************************************************************)
\* the address of the engine's operand stack (M3Runtime.stack)
StackBase == 3

\* slice::from_raw_parts(self.raw.as_ref().stack, self.raw.as_ref().numStackSlots)
stack ==
    /\ rtState = "live"
    /\ ret' = Ret("stack", "Ok", [ptr |-> StackBase, len |-> numStackSlots], {})
    /\ UNCHANGED <<rtVars, closureVars, envRefs, listVars, mods, auxVars>>

\* slice::from_raw_parts_mut over the same buffer
stack_mut ==
    /\ rtState = "live"
    /\ ret' = Ret("stack_mut", "Ok", [ptr |-> StackBase, len |-> numStackSlots], {})
    /\ UNCHANGED <<rtVars, closureVars, envRefs, listVars, mods, auxVars>>

(***************************************************************************)
(* The lookup-and-view machine: every read operation, over Runtimes with   *)
(* modules and closures.                                                   *)
(***************************************************************************)
FTable == [n \in FnNames |-> IF n = "f" THEN "sigA" ELSE "absent"]

NextReadOnly ==
    \/ \E h \in {Null, Handle} : New("envA", 2, h)
    \/ \E m \in ModIds, t \in {NoExports, FTable} :
          parse_and_load_module(m, <<1>>, t, TRUE, "Ok")
    \/ \E a \in {Len(pushed) + 1} : push_closure(a)
    \/ \E sig \in Sigs : find_function("f", sig)
    \/ \E name \in {<<1>>, <<2>>} : find_module(name)
    \/ modules_new
    \/ modules_next
    \/ modules_drop
    \/ \E p \in {Null, MemBase} : memory(p, MaxMemSize)
    \/ stack
    \/ stack_mut

SpecReadOnly == Init /\ [][NextReadOnly]_vars

ReadOps == {"find_function", "find_module", "modules_new", "modules_next",
            "memory", "stack", "stack_mut"}

\* what a read operation must leave alone
C13_Frame ==
    ret'.op \in ReadOps =>
        /\ modules' = modules
        /\ next' = next
        /\ ModuleList' = ModuleList
        /\ closure_store' = closure_store
        /\ heap' = heap
        /\ environment' = environment
        /\ envRefs' = envRefs
        /\ raw' = raw
        /\ rtState' = rtState

\* C13: find_function, find_module, modules() (its creation and each of its
\* steps), memory(), stack() and stack_mut() leave the module list, the
\* closure store, the Environment reference and the execution-context
\* handle as they were, whether they succeed or fail.
C13_ReadOnly == [][C13_Frame]_vars

\* C13 witness: a failed lookup on a Runtime with two modules, two closures
\* and a sequence in mid-iteration
C13_Witness ==
    /\ ret.op = "find_function"
    /\ ret.res = "InvalidFunctionSignature"
    /\ Len(ModuleList) = 2
    /\ Len(closure_store.elems) = 2
    /\ iter.st = "live"
    /\ Len(iter.yielded) = 1
    /\ numStackSlots = 2

(***************************************************************************)
(* The teardown machine: closures, modules and the caller's Environment    *)
(* handles around the drop of the Runtime.                                 *)
(***************************************************************************)
\* the caller drops its own handle of an Environment
DropCallerEnvironment(e) ==
    /\ callerEnv[e]
    /\ callerEnv' = [callerEnv EXCEPT ![e] = FALSE]
    /\ envRefs' = ReleaseEnv(envRefs, e)
    /\ ret' = Ret("drop_caller_environment", "Ok", e, {})
    /\ UNCHANGED <<rtVars, closureVars, listVars, mods, numStackSlots, iter>>

NextTeardown ==
    \/ \E e \in Envs, h \in {Null, Handle} : New(e, 1, h)
    \/ \E e \in Envs : DropCallerEnvironment(e)
    \/ \E m \in ModIds, e \in Envs : ParseModule(m, e, <<1>>, NoExports)
    \/ \E m \in ModIds, r \in LoadResults : load_module(m, r)
    \/ \E a \in {Len(pushed) + 1} : push_closure(a)
    \/ Drop
    \/ DropEnvironment
    \/ DropClosureStore

SpecTeardown == Init /\ [][NextTeardown]_vars

ClosuresAlive ==
    \A a \in PushedSet : heap[a] = "alive" /\ closFrees[a] = 0

EnvironmentHeld == environment # NoEnv /\ envRefs[environment] >= 1

\* while the context is not released, and right after its release, the
\* closures and the Environment are still there
C14_State ==
    /\ (rtState # "none" /\ freeRuntimeCalls = 0) =>
           rtState = "live" /\ ClosuresAlive /\ EnvironmentHeld
    /\ rtState = "ctx_freed" =>
           freeRuntimeCalls = 1 /\ ClosuresAlive /\ EnvironmentHeld
    /\ rtState = "env_dropped" => ClosuresAlive /\ environment = NoEnv
    /\ \A e \in Envs : envRefs[e] >= 0

\* a step that frees a closure or gives up the Runtime's Environment
\* reference starts with the context released
C14_Step ==
    ((\E a \in Addrs : heap'[a] = "freed" /\ heap[a] # "freed")
        \/ (environment # NoEnv /\ environment' = NoEnv)) =>
        freeRuntimeCalls = 1

\* C14: at the drop of a Runtime the execution context is released first,
\* and only then are the closures freed and the Environment reference
\* given up; a context not yet released never coexists with a freed closure
\* of its store or with an Environment whose last reference is gone.
C14_TeardownOrder == []C14_State /\ [][C14_Step]_vars

\* C14 witness: the context has been released while two closures are still
\* alive and the Runtime holds the last reference to its Environment
C14_Witness ==
    /\ rtState = "ctx_freed"
    /\ Len(pushed) = 2
    /\ ClosuresAlive
    /\ ~callerEnv[environment]
    /\ envRefs[environment] = 1

(***************************************************************************)
(* Errors of a single module's resolution, under SpecFunctions.            *)
(***************************************************************************)
\* the positions of the modules whose resolution of the name fails for
\* another reason than not-found or a wrong signature
Broken == {i \in 1..Len(ModuleList) : Held(i) = "broken"}

\* the positions examined by the scan
ExaminedUpTo == Len(ret.val.examined)

\* C15: find_function returns success, InvalidFunctionSignature or
\* FunctionNotFound and nothing else; a module whose resolution reports
\* another error is passed over like one that does not hold the name, the
\* scan goes on with the next module, and that error never reaches the
\* caller.
C15_OtherErrorsSkipped ==
    ret.op = "find_function" =>
        /\ ret.res \in {"Ok", "InvalidFunctionSignature", "FunctionNotFound"}
        /\ ret.val.examined = SubSeq(ModuleList, 1, ExaminedUpTo)
        /\ \A i \in Broken : ret.val.module # ModuleList[i]
        /\ Signed = {} =>
              /\ ret.res = "FunctionNotFound"
              /\ ExaminedUpTo = Len(ModuleList)
        /\ Signed # {} => ExaminedUpTo = Least(Signed)

\* C15 witness: the first module's resolution fails with another error and
\* the second module's succeeds
C15_Witness ==
    /\ ret.op = "find_function"
    /\ ret.res = "Ok"
    /\ Len(ModuleList) >= 2
    /\ Held(1) = "broken"
    /\ ret.val.module = ModuleList[2]
    /\ ret.val.examined = <<ModuleList[1], ModuleList[2]>>

=============================================================================
